---- MODULE Spec2Model ----
(***************************************************************************)
(* Model of src/main.rs: the food-access graph pipeline                    *)
(*   rows -> create_nodes -> create_edges -> calculate_degree_centrality.  *)
(* Strings that the program parses (tract ids, the three score fields)     *)
(* are sequences of one-character strings, so that skip(5) and parse()     *)
(* are computed character by character; strings that are only compared     *)
(* (county, urban) are TLA+ strings.                                       *)
(***************************************************************************)
EXTENDS Integers, Sequences, FiniteSets, TLC

VARIABLES
    overflow_checks,  \* TRUE: debug build (arithmetic overflow panics); FALSE: release (wraps)
    data,             \* main's `data`: the rows read from the CSV file, until create_nodes consumes them
    num_vertices,     \* main's `num_vertices`: data.len(), taken before the rows are consumed
    nodes,            \* main's `nodes`: HashMap<String, Node> as a function id -> Node
    order,            \* the HashMap's iteration order over its keys (fixed while no key is inserted)
    pc,               \* position in main: "start", "nodes", "edges", "done", "panicked"
    calls,            \* number of completed create_edges calls on `nodes`
    evaluated,        \* the (node, other_node) key pairs should_add_edge was called on in the last create_edges
    result            \* the pair returned by calculate_degree_centrality

vars == <<overflow_checks, data, num_vertices, nodes, order, pc, calls, evaluated, result>>

-----------------------------------------------------------------------------
(* Bounds of the model *)

MaxRows == 3        \* rows in `data` under Spec
MaxWideRows == 2    \* rows in `data` under SpecWide
MaxCalls == 2       \* create_edges calls on one mapping

-----------------------------------------------------------------------------
(* Program constants *)

I32_MAX == 2147483647
I32_MIN == -I32_MAX - 1
PrefixLen == 5
AdjacentDiff == 10
NumColumns == 18

-----------------------------------------------------------------------------
(* Option<T> and the outcome of a computation that may panic *)

None == [some |-> FALSE, v |-> 0]
Some(x) == [some |-> TRUE, v |-> x]

Digits == {"0", "1", "2", "3", "4", "5", "6", "7", "8", "9"}

DigitVal(c) ==
    CASE c = "0" -> 0 [] c = "1" -> 1 [] c = "2" -> 2 [] c = "3" -> 3 [] c = "4" -> 4
      [] c = "5" -> 5 [] c = "6" -> 6 [] c = "7" -> 7 [] c = "8" -> 8 [] c = "9" -> 9

\* s.chars().skip(n).collect::<String>()
Skip(s, n) == IF Len(s) <= n THEN <<>> ELSE SubSeq(s, n + 1, Len(s))

\* <i32 as FromStr>: digits accumulated left to right, positively after an
\* optional '+', negatively after '-'; any other character, an empty digit
\* string, or a value outside i32 is an Err (-> None after .ok()).
RECURSIVE ParseDigitsI32(_, _, _, _)
ParseDigitsI32(s, k, acc, neg) ==
    IF k > Len(s) THEN Some(acc)
    ELSE IF s[k] \notin Digits THEN None
    ELSE LET d == DigitVal(s[k]) IN
         IF neg
         THEN IF acc < -(I32_MAX \div 10) \/ (acc * 10 < I32_MIN + d) THEN None
              ELSE ParseDigitsI32(s, k + 1, acc * 10 - d, neg)
         ELSE IF acc > I32_MAX \div 10 \/ (acc * 10 > I32_MAX - d) THEN None
              ELSE ParseDigitsI32(s, k + 1, acc * 10 + d, neg)

ParseI32(s) ==
    IF Len(s) = 0 THEN None
    ELSE IF s[1] \in {"+", "-"}
         THEN IF Len(s) = 1 THEN None ELSE ParseDigitsI32(s, 2, 0, s[1] = "-")
         ELSE ParseDigitsI32(s, 1, 0, FALSE)

\* a - b on i32: the build decides what an overflow does.
SubI32(a, b, oc) ==
    IF b > 0 /\ a < I32_MIN + b
    THEN [panic |-> oc, v |-> (a - I32_MIN) + (I32_MAX - b) + 1]
    ELSE IF b < 0 /\ a > I32_MAX + b
    THEN [panic |-> oc, v |-> (a - I32_MAX) + (I32_MIN - b) - 1]
    ELSE [panic |-> FALSE, v |-> a - b]

\* i32::abs: abs(i32::MIN) overflows.
AbsI32(x, oc) ==
    IF x = I32_MIN THEN [panic |-> oc, v |-> I32_MIN]
    ELSE [panic |-> FALSE, v |-> IF x < 0 THEN -x ELSE x]

\* <f64 as FromStr> on the field strings the model draws: an optional sign
\* and decimal digits give that integer (exact in f64); text that is no
\* number is an Err.  (Fractions, exponents, "inf" and "NaN" are not drawn.)
RECURSIVE ParseDigitsF64(_, _, _)
ParseDigitsF64(s, k, acc) ==
    IF k > Len(s) THEN Some(acc)
    ELSE IF s[k] \notin Digits THEN None
    ELSE ParseDigitsF64(s, k + 1, acc * 10 + DigitVal(s[k]))

ParseF64(s) ==
    IF Len(s) = 0 THEN None
    ELSE IF s[1] \in {"+", "-"}
         THEN IF Len(s) = 1 THEN None
              ELSE LET m == ParseDigitsF64(s, 2, 0) IN
                   IF m.some /\ s[1] = "-" THEN Some(-m.v) ELSE m
         ELSE ParseDigitsF64(s, 1, 0)

-----------------------------------------------------------------------------
(* f64 values of the form n / d, as calculate_degree_centrality produces.  *)
(* kind "fin": n / d with d >= 1, or n / usize::MAX when big (the wrapped  *)
(* num_vertices - 1); "inf": n / 0 with n > 0; "nan": 0 / 0.               *)

FZero == [kind |-> "fin", n |-> 0, d |-> 1, big |-> FALSE]

\* n as f64 / d as f64, where d is a usize given as [big, d]
FDiv(n, den) ==
    IF den.big THEN (IF n = 0 THEN FZero ELSE [kind |-> "fin", n |-> n, d |-> 1, big |-> TRUE])
    ELSE IF den.d = 0 THEN [kind |-> IF n = 0 THEN "nan" ELSE "inf", n |-> 0, d |-> 1, big |-> FALSE]
    ELSE IF n = 0 THEN FZero
    ELSE [kind |-> "fin", n |-> n, d |-> den.d, big |-> FALSE]

\* IEEE 754 a > b
FGt(a, b) ==
    IF a.kind = "nan" \/ b.kind = "nan" THEN FALSE
    ELSE IF a.kind = "inf" THEN b.kind # "inf"
    ELSE IF b.kind = "inf" THEN FALSE
    ELSE IF a.big = b.big THEN a.n * b.d > b.n * a.d
    ELSE IF a.big THEN a.n > 0 /\ b.n = 0
    ELSE a.n > 0

-----------------------------------------------------------------------------
(* should_add_edge *)

\* Returns [panic, val]: val is the bool returned when the call does not panic.
should_add_edge(node, other_node, oc) ==
    IF node.census_tract = other_node.census_tract
    THEN [panic |-> FALSE, val |-> FALSE]
    ELSE IF node.county = other_node.county /\ node.urban = other_node.urban
    THEN [panic |-> FALSE, val |-> TRUE]
    ELSE LET node_id == ParseI32(Skip(node.census_tract, PrefixLen))
             other_node_id == ParseI32(Skip(other_node.census_tract, PrefixLen))
         IN  IF node_id.some /\ other_node_id.some
             THEN LET diff == SubI32(node_id.v, other_node_id.v, oc)
                      abs == AbsI32(diff.v, oc)
                  IN  IF diff.panic \/ abs.panic
                      THEN [panic |-> TRUE, val |-> FALSE]
                      ELSE [panic |-> FALSE, val |-> abs.v <= AdjacentDiff]
             ELSE [panic |-> FALSE, val |-> FALSE]

-----------------------------------------------------------------------------
(* create_nodes *)

\* record[i] of a Vec<String> (0-based); the caller checks i < record.len()
Field(record, i) == record[i + 1]

\* HashMap::insert: a later row with the same key replaces the earlier node.
Insert(map, key, node) ==
    [k \in (DOMAIN map) \cup {key} |-> IF k = key THEN node ELSE map[k]]

\* The body of the `for record in data` loop.  Indexing a record that has
\* fewer than 18 fields panics, and so does unwrap() on a failed parse.
BuildNode(record) ==
    IF Len(record) < NumColumns THEN [panic |-> TRUE, node |-> <<>>]
    ELSE LET census_tract == Field(record, 0)
             poverty_rate == ParseF64(Field(record, 8))
             no_supermarket == ParseF64(Field(record, 10))
             tract_snap == ParseF64(Field(record, 17))
         IN  IF ~poverty_rate.some \/ ~no_supermarket.some \/ ~tract_snap.some
             THEN [panic |-> TRUE, node |-> <<>>]
             ELSE [panic |-> FALSE,
                   node |-> [food_insecurity_score |->
                                 poverty_rate.v + no_supermarket.v + tract_snap.v,
                             census_tract |-> census_tract,
                             county |-> Field(record, 1),
                             urban |-> Field(record, 2),
                             edges |-> <<>>]]

RECURSIVE CreateNodesFrom(_, _, _)
CreateNodesFrom(rows, k, map) ==
    IF k > Len(rows) THEN [panic |-> FALSE, nodes |-> map]
    ELSE LET b == BuildNode(rows[k]) IN
         IF b.panic THEN [panic |-> TRUE, nodes |-> map]
         ELSE CreateNodesFrom(rows, k + 1, Insert(map, b.node.census_tract, b.node))

EmptyMap == [k \in {} |-> 0]

create_nodes(rows) == CreateNodesFrom(rows, 1, EmptyMap)

-----------------------------------------------------------------------------
(* create_edges *)

\* nodes.keys().nth(i)
KeyNth(ord, i) == ord[i + 1]

\* InnerStart with the inner loop over every index, `0..nodes.len()`
InnerStartZero(i) == 0

\* The first index of the inner loop, `(i + 1)..nodes.len()`
InnerStart(i) == i + 1

\* The inner loop from j on: the pairs to add, the pairs evaluated, and
\* whether should_add_edge panicked.
RECURSIVE InnerLoop(_, _, _, _, _, _, _)
InnerLoop(map, ord, i, j, oc, edges_to_add, seen) ==
    IF j >= Len(ord)
    THEN [panic |-> FALSE, edges_to_add |-> edges_to_add, seen |-> seen]
    ELSE LET node_key == KeyNth(ord, i)
             other_node_key == KeyNth(ord, j)
             r == should_add_edge(map[node_key], map[other_node_key], oc)
             seen2 == Append(seen, <<node_key, other_node_key>>)
         IN  IF r.panic
             THEN [panic |-> TRUE, edges_to_add |-> edges_to_add, seen |-> seen2]
             ELSE InnerLoop(map, ord, i, j + 1, oc,
                            IF r.val THEN Append(edges_to_add, <<node_key, other_node_key>>)
                                     ELSE edges_to_add,
                            seen2)

\* PushEdge without the push on other_node_key's list
PushEdgeOneWay(map, node_key, other_node_key) ==
    IF node_key \in DOMAIN map
    THEN [map EXCEPT ![node_key].edges = Append(@, other_node_key)]
    ELSE map

\* One (node_key, other_node_key) of edges_to_add: push on both endpoints.
PushEdge(map, node_key, other_node_key) ==
    LET m1 == IF node_key \in DOMAIN map
              THEN [map EXCEPT ![node_key].edges = Append(@, other_node_key)]
              ELSE map
    IN  IF other_node_key \in DOMAIN m1
        THEN [m1 EXCEPT ![other_node_key].edges = Append(@, node_key)]
        ELSE m1

RECURSIVE ApplyEdges(_, _, _)
ApplyEdges(map, edges_to_add, k) ==
    IF k > Len(edges_to_add) THEN map
    ELSE ApplyEdges(PushEdge(map, edges_to_add[k][1], edges_to_add[k][2]),
                    edges_to_add, k + 1)

\* The outer loop from i on.
RECURSIVE OuterLoop(_, _, _, _, _)
OuterLoop(map, ord, i, oc, seen) ==
    IF i >= Len(ord) THEN [panic |-> FALSE, nodes |-> map, evaluated |-> seen]
    ELSE LET inner == InnerLoop(map, ord, i, InnerStart(i), oc, <<>>, seen) IN
         IF inner.panic
         THEN [panic |-> TRUE, nodes |-> map, evaluated |-> inner.seen]
         ELSE OuterLoop(ApplyEdges(map, inner.edges_to_add, 1), ord, i + 1, oc, inner.seen)

create_edges(map, ord, oc) == OuterLoop(map, ord, 0, oc, <<>>)

-----------------------------------------------------------------------------
(* calculate_degree_centrality *)

NoNode == [some |-> FALSE, v |-> <<>>]

\* (num_vertices - 1) on usize: 0 - 1 panics in a debug build and wraps to
\* usize::MAX in a release build.
Denominator(n_vertices, oc) ==
    IF n_vertices = 0
    THEN [panic |-> oc, big |-> TRUE, d |-> 0]
    ELSE [panic |-> FALSE, big |-> FALSE, d |-> n_vertices - 1]

\* RankStep whose second branch does not compare the scores
RankStepAnyScore(best, node, den) ==
    LET degree_centrality == FDiv(Len(node.edges), den) IN
    IF node.food_insecurity_score > best.max_food_insecurity_score
    THEN [max_food_insecurity_score |-> node.food_insecurity_score,
          max_degree_centrality |-> degree_centrality,
          max_degree_centrality_node |-> Some(node.census_tract)]
    ELSE IF FGt(degree_centrality, best.max_degree_centrality)
    THEN [best EXCEPT !.max_degree_centrality = degree_centrality,
                      !.max_degree_centrality_node = Some(node.census_tract)]
    ELSE best

\* The body of the `for (_, node) in nodes` loop on the running maxima.
RankStep(best, node, den) ==
    LET degree_centrality == FDiv(Len(node.edges), den) IN
    IF node.food_insecurity_score > best.max_food_insecurity_score
    THEN [max_food_insecurity_score |-> node.food_insecurity_score,
          max_degree_centrality |-> degree_centrality,
          max_degree_centrality_node |-> Some(node.census_tract)]
    ELSE IF node.food_insecurity_score = best.max_food_insecurity_score
            /\ FGt(degree_centrality, best.max_degree_centrality)
    THEN [best EXCEPT !.max_degree_centrality = degree_centrality,
                      !.max_degree_centrality_node = Some(node.census_tract)]
    ELSE best

RECURSIVE RankLoop(_, _, _, _, _, _)
RankLoop(map, ord, k, n_vertices, oc, best) ==
    IF k > Len(ord)
    THEN [panic |-> FALSE, centrality |-> best.max_degree_centrality,
          node |-> best.max_degree_centrality_node]
    ELSE LET den == Denominator(n_vertices, oc) IN
         IF den.panic
         THEN [panic |-> TRUE, centrality |-> best.max_degree_centrality,
               node |-> best.max_degree_centrality_node]
         ELSE RankLoop(map, ord, k + 1, n_vertices, oc, RankStep(best, map[ord[k]], den))

calculate_degree_centrality(map, ord, n_vertices, oc) ==
    RankLoop(map, ord, 1, n_vertices, oc,
             [max_food_insecurity_score |-> 0,
              max_degree_centrality |-> FZero,
              max_degree_centrality_node |-> NoNode])

-----------------------------------------------------------------------------
(* Inputs *)

\* A CSV row with the 18 columns create_nodes reads; the columns that are
\* only copied into the Node are empty.
Row(census_tract, county, urban, poverty_rate, no_supermarket, tract_snap) ==
    <<census_tract, county, urban, "", "", "", "", "", poverty_rate,
      "", no_supermarket, "", "", "", "", "", "", tract_snap>>

Prefix == <<"3", "6", "0", "0", "1">>

\* Tract ids whose suffixes are 0, 10 and 21: 0-10 are adjacent, 10-21 differ by 11.
Ids == {Prefix \o <<"0", "0">>, Prefix \o <<"1", "0">>, Prefix \o <<"2", "1">>}

\* Also: a suffix that is no number, an id shorter than the prefix (as in
\* tests::test_should_add_edge), an empty id, and suffixes at the ends of i32.
WideIds ==
    Ids \cup {Prefix \o <<"x">>,
              <<"C", "T", "1">>,
              <<>>,
              Prefix \o <<"-", "1">>,
              Prefix \o <<"2", "1", "4", "7", "4", "8", "3", "6", "4", "7">>,
              Prefix \o <<"2", "1", "4", "7", "4", "8", "3", "6", "4", "8">>,
              Prefix \o <<"-", "2", "1", "4", "7", "4", "8", "3", "6", "4", "0">>}

Counties == {"Albany County", "Kings County"}

\* Well-formed rows: one urban class, scores -1, 0 and 1.
Rows ==
    {Row(id, county, "1", pr, <<"0">>, <<"0">>) :
        id \in Ids, county \in Counties, pr \in {<<"-", "1">>, <<"0">>, <<"1">>}}

\* Rows with any id, both urban classes, and at most one of the three score
\* columns (8, 10, 17; 0 for none) holding text that is no number; and rows
\* that are too short.
WideRows ==
    {Row(id, county, urban,
         IF bad = 8 THEN <<"Y", "e", "s">> ELSE <<"1">>,
         IF bad = 10 THEN <<"Y", "e", "s">> ELSE <<"0">>,
         IF bad = 17 THEN <<>> ELSE <<"0">>) :
        id \in WideIds, county \in Counties, urban \in {"0", "1"}, bad \in {0, 8, 10, 17}}
    \cup {<<>>, <<Prefix \o <<"0", "0">>>>}

SeqsUpTo(S, n) == UNION {[1..k -> S] : k \in 0..n}

\* All iteration orders of a key set
Perms(S) == {f \in [1..Cardinality(S) -> S] : \A a, b \in 1..Cardinality(S) : f[a] = f[b] => a = b}

-----------------------------------------------------------------------------
(* main *)

NoResult == [centrality |-> FZero, node |-> NoNode]

InitWith(rowsets) ==
    /\ overflow_checks \in BOOLEAN
    /\ data \in rowsets
    /\ num_vertices = Len(data)
    /\ nodes = EmptyMap
    /\ order = <<>>
    /\ pc = "start"
    /\ calls = 0
    /\ evaluated = <<>>
    /\ result = NoResult

Init == InitWith(SeqsUpTo(Rows, MaxRows))

InitWide == InitWith(SeqsUpTo(WideRows, MaxWideRows))

\* let mut nodes = create_nodes(data);   (`data` is moved into the call)
CreateNodes ==
    /\ pc = "start"
    /\ LET r == create_nodes(data) IN
       IF r.panic
       THEN /\ pc' = "panicked"
            /\ UNCHANGED <<data, nodes, order>>
       ELSE /\ pc' = "nodes"
            /\ data' = <<>>
            /\ nodes' = r.nodes
            /\ order' \in Perms(DOMAIN r.nodes)
    /\ UNCHANGED <<overflow_checks, num_vertices, calls, evaluated, result>>

\* create_edges(&mut nodes);
CreateEdges ==
    /\ pc \in {"nodes", "edges"}
    /\ calls < MaxCalls
    /\ LET r == create_edges(nodes, order, overflow_checks) IN
       IF r.panic
       THEN /\ pc' = "panicked"
            /\ UNCHANGED <<nodes, calls>>
            /\ evaluated' = r.evaluated
       ELSE /\ pc' = "edges"
            /\ nodes' = r.nodes
            /\ calls' = calls + 1
            /\ evaluated' = r.evaluated
    /\ UNCHANGED <<overflow_checks, data, num_vertices, order, result>>

\* let (max_degree_centrality, max_degree_centrality_node) =
\*     calculate_degree_centrality(&nodes, num_vertices);
CalculateDegreeCentrality ==
    /\ pc = "edges"
    /\ LET r == calculate_degree_centrality(nodes, order, num_vertices, overflow_checks) IN
       IF r.panic
       THEN /\ pc' = "panicked"
            /\ UNCHANGED result
       ELSE /\ pc' = "done"
            /\ result' = [centrality |-> r.centrality, node |-> r.node]
    /\ UNCHANGED <<overflow_checks, data, num_vertices, nodes, order, calls, evaluated>>

Next == CreateNodes \/ CreateEdges \/ CalculateDegreeCentrality

Spec == Init /\ [][Next]_vars

SpecWide == InitWide /\ [][Next]_vars

-----------------------------------------------------------------------------
(* Properties *)

Keys == DOMAIN nodes

Contains(seq, x) == \E k \in 1..Len(seq) : seq[k] = x

Count(seq, x) == Cardinality({k \in 1..Len(seq) : seq[k] = x})

\* create_edges has returned at least once
Built == pc \in {"edges", "done"}

\* create_edges has returned exactly once, on lists that were empty
BuiltOnce == Built /\ calls = 1

Connected(a, b) == Contains(nodes[a].edges, b)

\* Three nodes, some pair connected and some pair not
MixedGraph ==
    /\ Cardinality(Keys) = 3
    /\ \E a, b \in Keys : a # b /\ Connected(a, b)
    /\ \E a, b \in Keys : a # b /\ ~Connected(a, b)

\* C1: after create_edges has run once on a mapping with empty edge lists,
\* edges are symmetric: A is in B's list iff B is in A's list.
C1_Symmetry ==
    BuiltOnce => \A a, b \in Keys : Connected(b, a) <=> Connected(a, b)

C1_Witness == BuiltOnce /\ MixedGraph

\* Number of times should_add_edge was called on the keys a, b in that order
EvalCount(a, b) == Count(evaluated, <<a, b>>)

\* C2: after one create_edges on empty edge lists, for every two distinct
\* keys B is in A's list iff should_add_edge(A, B), B is in the list at most
\* once, the unordered pair was evaluated exactly once, and no node was
\* evaluated against itself -- whatever the iteration order.
C2_ExactEdges ==
    BuiltOnce =>
        /\ \A a, b \in Keys : a # b =>
              LET r == should_add_edge(nodes[a], nodes[b], overflow_checks) IN
              /\ ~r.panic
              /\ Connected(a, b) <=> r.val
              /\ Count(nodes[a].edges, b) <= 1
              /\ EvalCount(a, b) + EvalCount(b, a) = 1
        /\ \A a \in Keys : EvalCount(a, a) = 0 /\ ~Connected(a, a)

C2_Witness == BuiltOnce /\ MixedGraph /\ pc = "edges"

\* |x - y| <= bound over the integers (no wrap-around)
WithinDistance(x, y, bound) ==
    LET hi == IF x >= y THEN x ELSE y
        lo == IF x >= y THEN y ELSE x
    IN  IF lo > I32_MAX - bound THEN TRUE ELSE hi <= lo + bound

\* What C3 says should_add_edge returns for two nodes with distinct ids
ConnectsAsStated(node, other_node) ==
    \/ node.county = other_node.county /\ node.urban = other_node.urban
    \/ LET x == ParseI32(Skip(node.census_tract, PrefixLen))
           y == ParseI32(Skip(other_node.census_tract, PrefixLen))
       IN  x.some /\ y.some /\ WithinDistance(x.v, y.v, AdjacentDiff)

\* The call on the k-th evaluated pair returned what C3 states
EvaluatedAsStated(k) ==
    LET node == nodes[evaluated[k][1]]
        other_node == nodes[evaluated[k][2]]
        r == should_add_edge(node, other_node, overflow_checks)
    IN  ~r.panic /\ (r.val <=> ConnectsAsStated(node, other_node))

\* C3: every call of should_add_edge on nodes with distinct ids returns true
\* exactly when region and density class are both equal, or both id
\* suffixes parse and their difference is at most 10 in absolute value.
C3_PredicateExact ==
    \A k \in 1..Len(evaluated) : EvaluatedAsStated(k)

\* C4: however often create_edges has run on the mapping, no list holds a
\* neighbour id more than once.
C4_NoDuplicates ==
    Built => \A a, b \in Keys : Count(nodes[a].edges, b) <= 1

Score(a) == nodes[a].food_insecurity_score

Degree(a) == Len(nodes[a].edges)

MaxScore(a) == \A b \in Keys : Score(b) <= Score(a)

\* C5: on a non-empty mapping with num_vertices > 1, the returned node has
\* the maximum score, and the maximum degree among the nodes with that score.
C5_MaxScoreReturned ==
    (pc = "done" /\ Keys # {} /\ num_vertices > 1) =>
        /\ result.node.some
        /\ MaxScore(result.node.v)
        /\ \A b \in Keys : MaxScore(b) => Degree(b) <= Degree(result.node.v)

\* C6: with num_vertices <= 1 calculate_degree_centrality does not return
\* normally once it has divided by (num_vertices - 1), which it does for
\* every node of the mapping.
C6_InsufficientData ==
    ~(pc = "done" /\ num_vertices <= 1 /\ Keys # {})

\* C7: on an empty mapping calculate_degree_centrality does not return
\* normally with the placeholder (0.0, None).
C7_EmptyGraphError ==
    ~(pc = "done" /\ Keys = {} /\ result = NoResult)

\* create_nodes panicked: the run stopped with the rows not yet consumed
CreateNodesAborted == pc = "panicked" /\ data # <<>>

\* C8: a malformed row (no or empty id, a score field that is no number)
\* never aborts the run and never puts a node with an empty id in the mapping.
C8_MalformedRowIsolated ==
    /\ ~CreateNodesAborted
    /\ <<>> \notin Keys

\* 0.0 <= a /\ a <= 1.0 on the f64 values above
FInUnit(a) == a.kind = "fin" /\ a.n >= 0 /\ (a.big \/ a.n <= a.d)

\* The degree centrality calculate_degree_centrality computes for node a
Centrality(a) == FDiv(Degree(a), Denominator(num_vertices, overflow_checks))

\* C9: when num_vertices > 1, every node's degree centrality, as computed
\* after one or several create_edges calls, lies in [0, 1].
C9_CentralityBounds ==
    (pc = "done" /\ num_vertices > 1) => \A a \in Keys : FInUnit(Centrality(a))

\* The mapping as create_nodes returned it: the same nodes, no edges
Fresh == [k \in Keys |-> [nodes[k] EXCEPT !.edges = <<>>]]

\* create_edges then calculate_degree_centrality on Fresh under iteration order p
RunUnder(p) ==
    LET e == create_edges(Fresh, p, overflow_checks)
        r == calculate_degree_centrality(e.nodes, p, num_vertices, overflow_checks)
    IN  [panic |-> e.panic \/ r.panic, centrality |-> r.centrality, node |-> r.node]

\* Two returned nodes that are tied on score and on degree
FullTie(x, y) ==
    x.some /\ y.some /\ Score(x.v) = Score(y.v) /\ Degree(x.v) = Degree(y.v)

\* C10: a run of create_edges and calculate_degree_centrality under any other
\* iteration order of the same mapping returns the same centrality, and the
\* same node unless the two returned nodes are tied on score and centrality.
C10_OrderIndependent ==
    (pc = "done" /\ calls = 1) =>
        \A p \in Perms(Keys) :
            LET other == RunUnder(p) IN
            /\ ~other.panic
            /\ other.centrality = result.centrality
            /\ other.node = result.node \/ FullTie(other.node, result.node)

\* Three nodes: the returned one chosen on degree over a node with its score,
\* and a connected node with a lower score
C10_Witness ==
    /\ pc = "done" /\ calls = 1
    /\ Cardinality(Keys) = 3
    /\ result.node.some
    /\ \E b \in Keys : Score(b) = Score(result.node.v) /\ Degree(b) < Degree(result.node.v)
    /\ \E b \in Keys : Score(b) < Score(result.node.v) /\ Degree(b) > 0

====
